---- MODULE Spec2Model ----
(***************************************************************************)
(* Model of the MCP client session of pi-minimax-mcp (src/src/client.ts):  *)
(* one MiniMaxMcpClient object, the subprocesses it spawns, the requests   *)
(* it has sent, and the callers suspended in connect() / callTool().       *)
(*                                                                         *)
(* JavaScript scheduling: a caller operation (connect, callTool,           *)
(* disconnect) runs synchronously up to its first await; continuations of  *)
(* settled promises are microtasks; timers, child-process events and       *)
(* stdout data are macrotasks, which run only when no microtask is         *)
(* runnable.                                                               *)
(***************************************************************************)
EXTENDS Integers, Sequences, FiniteSets, TLC

\* ---- bounds ----
MaxSpawn == 2          \* connect attempts (= subprocesses spawned)
MaxCalls == 2          \* caller operations connect()/callTool()
MaxFaults == 1         \* abnormal inputs in one run: a failed spawn, arguments that
                       \* cannot be serialized, an error response, a response line
                       \* split over two chunks, an exit that is not caused by kill,
                       \* an "error" event
MaxReq   == 4          \* requests sent
MaxLen   == 5          \* characters of a text given to the formatter
MaxBudget == 3         \* largest maxBytes / maxLines given to the formatter
MaxFormats == 2        \* formatToolOutput calls that share one temp directory
MaxClock == 2          \* largest value of Date.now()
MaxTmpLen == 2         \* characters of a text formatted into the shared directory
MaxStream == 3         \* characters of the output that a subprocess has written

\* ---- characters of the subprocess's stdout stream ----
NL    == 0             \* "\n"
SP    == 1             \* " "
JUNK  == 2             \* a character of a line that is not JSON
NOTIF == 3             \* the text of a JSON message without id
OkTok(id)  == 10 + 2 * id      \* the text of {"id": id, "result": ...}
ErrTok(id) == 11 + 2 * id      \* the text of {"id": id, "error": ...}
WithBody(tok, body) == tok + 100 * body    \* the same message with another of the
                                           \* result / error values of ResultField,
                                           \* ErrorMessage

\* ---- characters of a tool result's text, and their UTF-8 bytes ----
LetterA == 4           \* a character of one byte, itself its byte
LetterE == 5           \* a character of two bytes: ByteLead, ByteCont
Replacement == 6       \* U+FFFD, what decoding makes of an invalid byte; three bytes:
                       \* ByteLead3, ByteCont, ByteCont
ByteLead == 7
ByteCont == 8
Surrogate == 10        \* an unpaired surrogate (JSON.parse of "\ud83d"): a character
                       \* that UTF-8 cannot encode; encoding writes U+FFFD for it
ByteLead3 == 9

VARIABLES
    process,           \* this.process: 0 (null) or the index of the owned subprocess
    requestId,         \* this.requestId
    pendingRequests,   \* this.pendingRequests: request id -> index in requests
    buffer,            \* this.buffer: sequence of characters
    initialized,       \* this.initialized
    initPromise,       \* this.initPromise: 0 (null) or the index of a connect attempt
    requests,          \* the promises created by sendRequest, in creation order
    attempts,          \* the doConnect() invocations, in creation order
    procs,             \* the spawned subprocesses; attempt a spawned procs[a]
    calls,             \* the callers' callTool() invocations
    faults,            \* history: the abnormal inputs so far
    config,            \* this.config: [apiKey |-> the credential is present]
    front,             \* the front-end invocation that uses the session, if any
    fmt,               \* one use of the output formatter: its input and its result
    last               \* history: "call" after a caller started callTool(), "disconnect"
                       \* after a disconnect(), "disconnect2" after two or more in a row,
                       \* "threw" after a disconnect() that threw, "other" after any
                       \* other step

vars == <<process, requestId, pendingRequests, buffer, initialized, initPromise,
          requests, attempts, procs, calls, faults, config, front, fmt, last>>

World ==
    [process |-> process, requestId |-> requestId, pendingRequests |-> pendingRequests,
     buffer |-> buffer, initialized |-> initialized, initPromise |-> initPromise,
     requests |-> requests, attempts |-> attempts, procs |-> procs, config |-> config,
     threw |-> FALSE]       \* an exception escaped the running handler

Commit(w) ==
    /\ process' = w.process
    /\ requestId' = w.requestId
    /\ pendingRequests' = w.pendingRequests
    /\ buffer' = w.buffer
    /\ initialized' = w.initialized
    /\ initPromise' = w.initPromise
    /\ requests' = w.requests
    /\ attempts' = w.attempts
    /\ procs' = w.procs
    /\ config' = w.config
    /\ fmt' = fmt

EmptyMap == [k \in {} |-> 0]

MapDelete(m, k) == [j \in DOMAIN m \ {k} |-> m[j]]

MapSet(m, k, v) == [j \in DOMAIN m \cup {k} |-> IF j = k THEN v ELSE m[j]]

\* Promise semantics: the first resolve/reject settles, later ones are ignored.
Settle(req, state, result) ==
    IF req.state = "pending" THEN [req EXCEPT !.state = state, !.result = result] ELSE req

SettleRequest(w, r, state, result) ==
    [w EXCEPT !.requests[r] = Settle(w.requests[r], state, result)]

\* doConnect's promise: settled when the async function returns or throws.
SettleAttempt(w, a, pc, err) ==
    [w EXCEPT !.attempts[a].pc = pc, !.attempts[a].err = err]

\* ---- cleanup (client.ts 146-153) ----
\* ChildProcess.kill(): signals a running child; false, without effect, otherwise
Kill(p) ==
    IF p.state = "running" THEN [p EXCEPT !.state = "killed"] ELSE p

\* (mutant) kill() called without the test of this.process: a TypeError on null
cleanup_unguarded(w) ==
    LET w1 == [w EXCEPT !.initialized = FALSE, !.initPromise = 0]
    IN  IF w1.process # 0
        THEN [w1 EXCEPT !.procs[w1.process] = Kill(w1.procs[w1.process]), !.process = 0]
        ELSE [w1 EXCEPT !.threw = TRUE]

\* (mutant) the id counter restarts with the session
cleanup_resetids(w) ==
    LET w1 == [w EXCEPT !.initialized = FALSE, !.initPromise = 0, !.requestId = 0]
    IN  IF w1.process # 0
        THEN [w1 EXCEPT !.procs[w1.process] = Kill(w1.procs[w1.process]), !.process = 0]
        ELSE w1

\* (mutant) the handle is released without killing the subprocess
cleanup_nokill(w) ==
    [w EXCEPT !.initialized = FALSE, !.initPromise = 0, !.process = 0]

\* (mutant) the settled initPromise is kept
cleanup_poisoned(w) ==
    LET w1 == [w EXCEPT !.initialized = FALSE]
    IN  IF w1.process # 0
        THEN [w1 EXCEPT !.procs[w1.process] = Kill(w1.procs[w1.process]), !.process = 0]
        ELSE w1

cleanup(w) ==
    LET w1 == [w EXCEPT !.initialized = FALSE, !.initPromise = 0]
    IN  IF w1.process # 0
        THEN [w1 EXCEPT !.procs[w1.process] = Kill(w1.procs[w1.process]), !.process = 0]
        ELSE w1

\* ---- handleProcessError (client.ts 138-144) ----
RECURSIVE RejectAll(_, _)
RejectAll(w, ids) ==
    IF ids = {} THEN w
    ELSE LET k == CHOOSE x \in ids : TRUE
         IN  RejectAll(SettleRequest(w, w.pendingRequests[k], "rejected", "process_error"),
                       ids \ {k})

\* (mutant) the pending requests are dropped without being rejected
handleProcessError_silent(w) ==
    cleanup([w EXCEPT !.pendingRequests = EmptyMap])

handleProcessError(w) ==
    LET w1 == RejectAll(w, DOMAIN w.pendingRequests)
        w2 == [w1 EXCEPT !.pendingRequests = EmptyMap]
    IN  cleanup(w2)

\* ---- handleMessage (client.ts 129-136) ----
\* message: [id |-> request id or 0 when absent, error |-> BOOLEAN, body |-> which
\* result / error value it carries]
\* request.resolve(message) (client.ts 134)
Resolve(w, r, message) ==
    LET w1 == SettleRequest(w, r, "resolved", IF message.error THEN "rpc_error" ELSE "ok")
    IN  IF w.requests[r].state = "pending"
        THEN [w1 EXCEPT !.requests[r].body = message.body]
        ELSE w1

\* (mutant) the response goes to the oldest pending request, whatever its id
handleMessage_fifo(w, message) ==
    IF message.id # 0 /\ DOMAIN w.pendingRequests # {}
    THEN LET k  == CHOOSE x \in DOMAIN w.pendingRequests :
                       \A y \in DOMAIN w.pendingRequests : x <= y
             r  == w.pendingRequests[k]
             w1 == [w EXCEPT !.pendingRequests = MapDelete(w.pendingRequests, k),
                             !.requests[r].timer = FALSE]
         IN  Resolve(w1, r, message)
    ELSE w

\* (mutant) the record stays in the map after the response
handleMessage_keep(w, message) ==
    IF message.id # 0 /\ message.id \in DOMAIN w.pendingRequests
    THEN LET r  == w.pendingRequests[message.id]
             w1 == [w EXCEPT !.requests[r].timer = FALSE]
         IN  Resolve(w1, r, message)
    ELSE w

handleMessage(w, message) ==
    IF message.id # 0 /\ message.id \in DOMAIN w.pendingRequests
    THEN LET r  == w.pendingRequests[message.id]
             w1 == [w EXCEPT !.pendingRequests = MapDelete(w.pendingRequests, message.id),
                             !.requests[r].timer = FALSE]
         IN  Resolve(w1, r, message)
    ELSE w

\* ---- UTF-8 ----
\* Buffer.from(text, "utf-8")
RECURSIVE Encode(_)
Encode(text) ==
    IF text = <<>> THEN <<>>
    ELSE (IF Head(text) = LetterE THEN <<ByteLead, ByteCont>>
          ELSE IF Head(text) \in {Replacement, Surrogate}
          THEN <<ByteLead3, ByteCont, ByteCont>>
          ELSE <<Head(text)>>) \o Encode(Tail(text))

\* Buffer.toString("utf-8") on a tail of an encoded text: a continuation byte without
\* its lead byte decodes to U+FFFD
RECURSIVE Decode(_)
Decode(bytes) ==
    IF bytes = <<>> THEN <<>>
    ELSE IF Head(bytes) = ByteLead /\ Len(bytes) >= 2 /\ bytes[2] = ByteCont
    THEN <<LetterE>> \o Decode(Tail(Tail(bytes)))
    ELSE IF /\ Head(bytes) = ByteLead3 /\ Len(bytes) >= 3
            /\ bytes[2] = ByteCont /\ bytes[3] = ByteCont
    THEN <<Replacement>> \o Decode(Tail(Tail(Tail(bytes))))
    ELSE IF Head(bytes) \in {ByteLead, ByteLead3, ByteCont}
    THEN <<Replacement>> \o Decode(Tail(bytes))
    ELSE <<Head(bytes)>> \o Decode(Tail(bytes))

\* ---- handleData (client.ts 109-127) ----
IndexOfNL(s) ==
    IF \E i \in 1..Len(s) : s[i] = NL
    THEN CHOOSE i \in 1..Len(s) : s[i] = NL /\ \A j \in 1..(i - 1) : s[j] # NL
    ELSE 0

\* String.prototype.trim on a line (SP is the only whitespace except NL)
RECURSIVE Trim(_)
Trim(s) ==
    IF s = <<>> THEN s
    ELSE IF Head(s) = SP THEN Trim(Tail(s))
    ELSE IF s[Len(s)] = SP THEN Trim(SubSeq(s, 1, Len(s) - 1))
    ELSE s

\* The JSON text of one message is the character that stands for its fields,
\* followed by the characters of the text that it carries in a string.
\* JSON.parse succeeds on the text of one message and throws on anything else
ParseOk(line) ==
    /\ line[1] = NOTIF \/ line[1] >= OkTok(1)
    /\ \A i \in 2..Len(line) : line[i] \in {LetterA, LetterE, Replacement}

Message(line) ==
    IF line[1] = NOTIF THEN [id |-> 0, error |-> FALSE, body |-> 0, text |-> Tail(line)]
    ELSE [id |-> ((line[1] % 100) - 10) \div 2, error |-> ((line[1] % 100) - 10) % 2 = 1,
          body |-> line[1] \div 100, text |-> Tail(line)]

\* the while loop of handleData on the buffer buf: what is handled, what stays
RECURSIVE SplitLines(_)
SplitLines(buf) ==
    LET i == IndexOfNL(buf)
    IN  IF i = 0 THEN [lines |-> <<>>, buffer |-> buf]
        ELSE LET line == Trim(SubSeq(buf, 1, i - 1))
                 rest == SplitLines(SubSeq(buf, i + 1, Len(buf)))
             IN  [lines  |-> IF line = <<>> THEN rest.lines ELSE <<line>> \o rest.lines,
                  buffer |-> rest.buffer]

RECURSIVE HandleLines(_, _)
HandleLines(w, lines) ==
    IF lines = <<>> THEN w
    ELSE HandleLines(IF ParseOk(Head(lines)) THEN handleMessage(w, Message(Head(lines))) ELSE w,
                     Tail(lines))

\* data: the bytes of one chunk; data.toString() decodes them on their own
handleData(w, data) ==
    LET sp == SplitLines(w.buffer \o Decode(data))
    IN  HandleLines([w EXCEPT !.buffer = sp.buffer], sp.lines)

\* the ids of the messages one handleData call hands to handleMessage, in order
RECURSIVE HandledIds(_)
HandledIds(lines) ==
    IF lines = <<>> THEN <<>>
    ELSE (IF ParseOk(Head(lines)) THEN <<Message(Head(lines)).id>> ELSE <<>>)
         \o HandledIds(Tail(lines))

\* the messages one handleData call hands to handleMessage, in order
RECURSIVE HandledMessages(_)
HandledMessages(lines) ==
    IF lines = <<>> THEN <<>>
    ELSE (IF ParseOk(Head(lines)) THEN <<Message(Head(lines))>> ELSE <<>>)
         \o HandledMessages(Tail(lines))

\* ---- sendRequest (client.ts 155-184) ----
\* serializable: JSON.stringify(request) does not throw on the caller's params.
\* Result: the world and the index of the created promise (0: threw before creating one).
HasStdin(w) == w.process # 0 /\ w.procs[w.process].hasStdin

\* (mutant) no timeout is armed for the request
NewRequest_untimed(id, method, p) ==
    [id |-> id, method |-> method, state |-> "pending", result |-> "none",
     timer |-> FALSE, proc |-> p, body |-> 0]

\* the promise of client.ts 168-174 with its timer; proc: the child it is written to
NewRequest(id, method, p) ==
    [id |-> id, method |-> method, state |-> "pending", result |-> "none",
     timer |-> TRUE, proc |-> p, body |-> 0]

Write(w, msg) ==
    [w EXCEPT !.procs[w.process].stdin = Append(w.procs[w.process].stdin, msg)]

sendRequest(w, method, serializable) ==
    IF ~HasStdin(w) THEN [w |-> w, r |-> 0]
    ELSE LET id == w.requestId + 1
             r  == Len(w.requests) + 1
             w1 == [w EXCEPT !.requestId = id,
                             !.requests = Append(w.requests, NewRequest(id, method, w.process)),
                             !.pendingRequests = MapSet(w.pendingRequests, id, r)]
         IN  IF serializable
             THEN [w |-> Write(w1, [method |-> method, id |-> id]), r |-> r]
             ELSE LET w2 == [w1 EXCEPT !.pendingRequests = MapDelete(w1.pendingRequests, id),
                                       !.requests[r].timer = FALSE]
                  IN  [w |-> SettleRequest(w2, r, "rejected", "write_error"), r |-> r]

\* ---- sendNotification (client.ts 186-198) ----
\* (mutant) the notification is sent as a request: with an id and a pending record
sendNotification_asRequest(w, method) ==
    IF ~HasStdin(w) THEN [w |-> w, threw |-> TRUE]
    ELSE [w |-> sendRequest(w, method, TRUE).w, threw |-> FALSE]

sendNotification(w, method) ==
    IF ~HasStdin(w) THEN [w |-> w, threw |-> TRUE]
    ELSE [w |-> Write(w, [method |-> method, id |-> 0]), threw |-> FALSE]

\* ---- doConnect up to its first await (client.ts 44-84) ----
\* apiKey: MINIMAX_API_KEY of the child's environment is set (client.ts 47);
\* pidOk: spawn gave the child a pid; stdinOk: a child without pid still has a stdin stream
NewProc(apiKey, pidOk, stdinOk) ==
    [apiKey |-> apiKey, pid |-> pidOk, hasStdin |-> pidOk \/ stdinOk,
     state |-> IF pidOk THEN "running" ELSE "nopid",
     code |-> "none", stdin |-> <<>>, stdout |-> <<>>, answered |-> {}, errored |-> FALSE]

NewAttempt ==
    [pc |-> "startup", err |-> "none", ticked |-> FALSE,
     timeout |-> TRUE, interval |-> TRUE, req |-> 0]

doConnect(w, pidOk, stdinOk) ==
    [w EXCEPT !.procs = Append(w.procs, NewProc(w.config.apiKey, pidOk, stdinOk)),
              !.attempts = Append(w.attempts, NewAttempt),
              !.process = Len(w.procs) + 1]

\* ---- connect (client.ts 36-42) ----
\* (mutant) the in-flight initPromise is not reused
connect_again(w, pidOk, stdinOk) ==
    IF w.initialized THEN [w |-> w, on |-> 0]
    ELSE LET w1 == doConnect(w, pidOk, stdinOk)
         IN  [w |-> [w1 EXCEPT !.initPromise = Len(w1.attempts)], on |-> Len(w1.attempts)]

\* Result: the world and the promise returned: 0 (already resolved) or a connect attempt.
connect(w, pidOk, stdinOk) ==
    IF w.initialized THEN [w |-> w, on |-> 0]
    ELSE IF w.initPromise # 0 THEN [w |-> w, on |-> w.initPromise]
    ELSE LET w1 == doConnect(w, pidOk, stdinOk)
         IN  [w |-> [w1 EXCEPT !.initPromise = Len(w1.attempts)], on |-> Len(w1.attempts)]

Spawns(w) == ~w.initialized /\ w.initPromise = 0

\* ---- state after construction (client.ts 27-34) ----
\* the formatter is not in use
NoFmt == [pc |-> "none"]

\* no front-end: the session is driven by its callers directly
NoFront == [kind |-> "none", tool |-> "none", pc |-> "none", output |-> "none",
            exit |-> "none", constructed |-> FALSE, disconnected |-> FALSE,
            aborted |-> FALSE, hasArg |-> TRUE]

IdleCall == [pc |-> "idle", on |-> 0, serializable |-> TRUE, outcome |-> "none"]

Init ==
    /\ process = 0
    /\ requestId = 0
    /\ pendingRequests = EmptyMap
    /\ buffer = <<>>
    /\ initialized = FALSE
    /\ initPromise = 0
    /\ requests = <<>>
    /\ attempts = <<>>
    /\ procs = <<>>
    /\ calls = [c \in 1..MaxCalls |-> IdleCall]
    /\ faults = 0
    /\ config = [apiKey |-> TRUE]
    /\ front = NoFront
    /\ fmt = NoFmt
    /\ last = "init"

Attempts == 1..Len(attempts)
Procs    == 1..Len(procs)
Requests == 1..Len(requests)
Calls    == 1..MaxCalls

AttemptSettled(a) == IF a = 0 THEN TRUE ELSE attempts[a].pc \in {"ok", "failed"}

\* a continuation of a settled promise is waiting in the microtask queue
CallReady(c) == IF calls[c].pc = "connect" THEN AttemptSettled(calls[c].on) ELSE FALSE

AttemptReady(a) ==
    IF attempts[a].pc = "init" THEN requests[attempts[a].req].state # "pending" ELSE FALSE

MicrotaskReady == (\E c \in Calls : CallReady(c)) \/ (\E a \in Attempts : AttemptReady(a))

\* a macrotask (timer, child-process event, stdout data) starts only when the
\* microtask queue is empty
Macrotask == ~MicrotaskReady

\* caller code runs in a macrotask of its own, or goes on synchronously after
\* another caller operation
CallerRuns == ~MicrotaskReady \/ last \in {"call", "disconnect", "disconnect2", "threw"}

\* k more abnormal inputs
Fault(k) == faults + k <= MaxFaults /\ faults' = faults + k

B2N(b) == IF b THEN 1 ELSE 0

\* the requests sent so far and those the suspended attempts and calls can still send
Reserved ==
    Len(requests) + Cardinality({a \in Attempts : attempts[a].pc = "startup"})
                  + Cardinality({c \in Calls : calls[c].pc = "connect"})

\* callers start their operations in index order
NextCall(c) == calls[c].pc = "idle" /\ \A d \in 1..(c - 1) : calls[d].pc # "idle"

\* ---- caller operations ----
\* callTool() / webSearch() / understandImage() up to `await this.connect()`
\* (client.ts 200-201, 215-228)
StartCallTool(c, serializable, pidOk, stdinOk) ==
    /\ UNCHANGED front
    /\ CallerRuns
    /\ NextCall(c)
    /\ IF Spawns(World)
       THEN Len(attempts) < MaxSpawn /\ Reserved + 2 <= MaxReq
       ELSE pidOk /\ Reserved + 1 <= MaxReq
    /\ pidOk => stdinOk
    /\ Fault(B2N(~serializable) + B2N(~pidOk))
    /\ LET res == connect(World, pidOk, stdinOk)
       IN  /\ Commit(res.w)
           /\ calls' = [calls EXCEPT ![c] = [IdleCall EXCEPT !.pc = "connect", !.on = res.on,
                                                            !.serializable = serializable]]
           /\ last' = "call"

Done(c, outcome) == [calls EXCEPT ![c].pc = "done", ![c].outcome = outcome]

\* callTool after `await this.connect()`: sendRequest("tools/call") (client.ts 201-206)
CallResume(c) ==
    /\ UNCHANGED front
    /\ calls[c].pc = "connect"
    /\ AttemptSettled(calls[c].on)
    /\ \A d \in 1..(c - 1) : ~CallReady(d)      \* continuations run in FIFO order
    /\ last' = "other"
    /\ UNCHANGED faults
    /\ IF calls[c].on # 0 /\ attempts[calls[c].on].pc = "failed"
       THEN /\ calls' = Done(c, attempts[calls[c].on].err)
            /\ Commit(World)
       ELSE LET sr == sendRequest(World, "tools/call", calls[c].serializable)
            IN  /\ Commit(sr.w)
                /\ calls' = IF sr.r = 0 THEN Done(c, "not_connected")
                            ELSE [calls EXCEPT ![c].pc = "request", ![c].on = sr.r]

\* callTool after `await this.sendRequest(...)` (client.ts 203-212): what the caller gets
CallOutcome(req) ==
    IF req.state = "pending" THEN "none"
    ELSE IF req.state = "resolved"
    THEN (IF req.result = "rpc_error" THEN "tool_error" ELSE "result")
    ELSE req.result

\* the result field of the response carrying body: an McpToolResult object, no
\* result (absent or null), or a value that is falsy but neither null nor undefined
ResultField(body) == <<"object", "undefined", "false">>[body + 1]

\* error.message of the error response carrying body
ErrorMessage(body) == <<"message A", "message B", "message C">>[body + 1]

\* callTool after `await this.sendRequest(...)` resolved (client.ts 208-212): what is
\* thrown or returned
\* (mutant) `||` in the place of `??`
callToolReturn_or(req) ==
    IF req.result = "rpc_error"
    THEN [threw |-> TRUE, value |-> <<"Tool call failed: ", ErrorMessage(req.body)>>]
    ELSE [threw |-> FALSE,
          value |-> IF ResultField(req.body) \in {"undefined", "false"}
                    THEN <<"{ content: [] }">> ELSE <<ResultField(req.body)>>]

callToolReturn(req) ==
    IF req.result = "rpc_error"
    THEN [threw |-> TRUE, value |-> <<"Tool call failed: ", ErrorMessage(req.body)>>]
    ELSE [threw |-> FALSE,
          value |-> IF ResultField(req.body) = "undefined"
                    THEN <<"{ content: [] }">> ELSE <<ResultField(req.body)>>]

OutcomeIn(cs, rs, c) ==
    IF cs[c].pc = "request" THEN CallOutcome(rs[cs[c].on]) ELSE cs[c].outcome

Outcome(c) == OutcomeIn(calls, requests, c)

\* disconnect() (client.ts 230-232)
Disconnect ==
    /\ UNCHANGED front
    /\ CallerRuns
    /\ Commit(cleanup(World))
    /\ last' = IF cleanup(World).threw THEN "threw"
               ELSE IF last \in {"disconnect", "disconnect2"} THEN "disconnect2"
               ELSE "disconnect"
    /\ UNCHANGED faults
    /\ UNCHANGED calls

\* ---- doConnect after spawn (client.ts 74-89) and initialize (client.ts 91-107) ----
\* one run of the checkReady interval callback (client.ts 77-83); when it resolves the
\* startup wait, doConnect continues into initialize() up to its sendRequest
Tick(a) ==
    /\ UNCHANGED front
    /\ Macrotask
    /\ attempts[a].interval
    /\ calls' = calls
    /\ last' = "other"
    /\ UNCHANGED faults
    /\ IF process # 0 /\ procs[process].pid
       THEN LET w1 == [World EXCEPT !.attempts[a].timeout = FALSE,
                                    !.attempts[a].interval = FALSE]
            IN  IF attempts[a].pc = "startup"
                THEN LET sr == sendRequest(w1, "initialize", TRUE)
                     IN  IF sr.r = 0
                         THEN Commit(SettleAttempt(sr.w, a, "failed", "not_connected"))
                         ELSE Commit([sr.w EXCEPT !.attempts[a].pc = "init",
                                                  !.attempts[a].req = sr.r])
                ELSE Commit(w1)
       ELSE Commit([World EXCEPT !.attempts[a].ticked = TRUE])

\* the 10 s startup timeout (client.ts 76); the 100 ms interval has run before it
StartupTimeout(a) ==
    /\ UNCHANGED front
    /\ Macrotask
    /\ attempts[a].timeout
    /\ attempts[a].ticked
    /\ Commit(SettleAttempt([World EXCEPT !.attempts[a].timeout = FALSE],
                            a, "failed", "startup_timeout"))
    /\ last' = "other"
    /\ UNCHANGED faults
    /\ UNCHANGED calls

\* initialize() after its sendRequest settled (client.ts 92-106), then doConnect
\* after `await this.initialize()` (client.ts 87-89)
AttemptResume(a) ==
    /\ UNCHANGED front
    /\ attempts[a].pc = "init"
    /\ requests[attempts[a].req].state # "pending"
    /\ last' = "other"
    /\ UNCHANGED faults
    /\ UNCHANGED calls
    /\ LET req == requests[attempts[a].req]
       IN  IF req.state = "rejected"
           THEN Commit(SettleAttempt(World, a, "failed", req.result))
           ELSE IF req.result = "rpc_error"
           THEN Commit(SettleAttempt(World, a, "failed", "initialize_failed"))
           ELSE LET sn == sendNotification(World, "notifications/initialized")
                IN  IF sn.threw
                    THEN Commit(SettleAttempt(sn.w, a, "failed", "not_connected"))
                    ELSE Commit(SettleAttempt([sn.w EXCEPT !.initialized = TRUE],
                                              a, "ok", "none"))

\* (mutant) a timeout tears the session down
onTimeout_teardown(w, r) ==
    LET w1 == [w EXCEPT !.pendingRequests = MapDelete(w.pendingRequests, w.requests[r].id)]
    IN  cleanup(SettleRequest(w1, r, "rejected", "timeout"))

\* (mutant) the timer callback rejects without deleting the record
onTimeout_keep(w, r) ==
    SettleRequest(w, r, "rejected", "timeout")

\* the callback of the request timer (client.ts 169-172)
onTimeout(w, r) ==
    LET w1 == [w EXCEPT !.pendingRequests = MapDelete(w.pendingRequests, w.requests[r].id)]
    IN  SettleRequest(w1, r, "rejected", "timeout")

\* the request timer fires
RequestTimeout(r) ==
    /\ UNCHANGED front
    /\ Macrotask
    /\ requests[r].timer
    /\ Commit(onTimeout([World EXCEPT !.requests[r].timer = FALSE], r))
    /\ last' = "other"
    /\ UNCHANGED faults
    /\ UNCHANGED calls

\* ---- events of a subprocess ----
\* the child exits and its "exit" handler runs (client.ts 67-72)
Exit(p, code) ==
    /\ UNCHANGED front
    /\ Macrotask
    /\ IF procs[p].state = "running" THEN code \in {"0", "1"} /\ Fault(1)
       ELSE procs[p].state = "killed" /\ code = "null" /\ UNCHANGED faults
    /\ Commit(cleanup([World EXCEPT !.procs[p].state = "exited", !.procs[p].code = code]))
    /\ last' = "other"
    /\ UNCHANGED calls

\* the child emits "error" and its handler runs (client.ts 66)
ProcError(p) ==
    /\ UNCHANGED front
    /\ Macrotask
    /\ procs[p].state \in {"running", "nopid"}
    /\ ~procs[p].errored
    /\ Fault(1)
    /\ Commit(handleProcessError([World EXCEPT !.procs[p].errored = TRUE]))
    /\ last' = "other"
    /\ UNCHANGED calls

\* a chunk of a child's stdout reaches the "data" handler (client.ts 58)
Data(w, data) ==
    /\ UNCHANGED front
    /\ Commit(handleData(w, data))
    /\ last' = "other"
    /\ UNCHANGED calls

\* the MCP server answers a request it has read from its stdin; the first n
\* characters of the line arrive as one chunk; body: which result (or which error)
\* the response carries
RespondWith(p, id, error, n, body) ==
    /\ Macrotask
    /\ procs[p].pid
    /\ procs[p].stdout = <<>>
    /\ \E i \in 1..Len(procs[p].stdin) : procs[p].stdin[i].id = id
    /\ id \notin procs[p].answered
    /\ Fault(B2N(error) + B2N(n = 1))
    /\ LET line == <<WithBody(IF error THEN ErrTok(id) ELSE OkTok(id), body), NL>>
       IN  Data([World EXCEPT !.procs[p].answered = @ \cup {id},
                              !.procs[p].stdout = SubSeq(line, n + 1, Len(line))],
                SubSeq(line, 1, n))

Respond(p, id, error, n) == RespondWith(p, id, error, n, 0)

\* the rest of a line arrives
Deliver(p) ==
    /\ Macrotask
    /\ procs[p].stdout # <<>>
    /\ UNCHANGED faults
    /\ Data([World EXCEPT !.procs[p].stdout = <<>>], procs[p].stdout)

Next ==
    \/ \E c \in Calls, ser, pidOk, stdinOk \in BOOLEAN : StartCallTool(c, ser, pidOk, stdinOk)
    \/ \E c \in Calls : CallResume(c)
    \/ Disconnect
    \/ \E a \in Attempts : Tick(a)
    \/ \E a \in Attempts : StartupTimeout(a)
    \/ \E a \in Attempts : AttemptResume(a)
    \/ \E r \in Requests : RequestTimeout(r)
    \/ \E p \in Procs, code \in {"0", "1", "null"} : Exit(p, code)
    \/ \E p \in Procs : ProcError(p)
    \/ \E p \in Procs, id \in 1..MaxReq, error \in BOOLEAN, n \in 1..2 : Respond(p, id, error, n)
    \/ \E p \in Procs : Deliver(p)

Spec == Init /\ [][Next]_vars

\* the event loop runs a runnable continuation or a due one-shot timer callback
EventLoop ==
    \/ \E c \in Calls : CallResume(c)
    \/ \E a \in Attempts : AttemptResume(a)
    \/ \E a \in Attempts : StartupTimeout(a)
    \/ \E r \in Requests : RequestTimeout(r)

\* each of these runs at most once, so fairness of their disjunction is fairness of
\* each; an interval keeps firing, so each interval is fair on its own
Fairness ==
    /\ WF_vars(EventLoop)
    /\ \A a \in 1..MaxSpawn : WF_vars(a \in Attempts /\ Tick(a))

FairSpec == Spec /\ Fairness

\* ---- a session that is Ready ----
\* the state after `await client.connect()` has returned on a fresh session: the
\* subprocess is spawned, the initialize request (id 1) answered, the initialized
\* notification written (client.ts 36-107)
ReadyInit ==
    /\ process = 1
    /\ requestId = 1
    /\ pendingRequests = EmptyMap
    /\ buffer = <<>>
    /\ initialized = TRUE
    /\ initPromise = 1
    /\ requests = <<[Settle(NewRequest(1, "initialize", 1), "resolved", "ok")
                        EXCEPT !.timer = FALSE]>>
    /\ attempts = <<[NewAttempt EXCEPT !.pc = "ok", !.timeout = FALSE,
                                       !.interval = FALSE, !.req = 1]>>
    /\ procs = <<[NewProc(TRUE, TRUE, TRUE) EXCEPT
                     !.stdin = <<[method |-> "initialize", id |-> 1],
                                 [method |-> "notifications/initialized", id |-> 0]>>,
                     !.answered = {1}]>>
    /\ calls = [c \in 1..MaxCalls |-> IdleCall]
    /\ faults = 0
    /\ config = [apiKey |-> TRUE]
    /\ front = NoFront
    /\ fmt = NoFmt
    /\ last = "init"

ReadySpec == ReadyInit /\ [][Next]_vars

\* ---- a session constructed from a configuration without credential ----
\* new MiniMaxMcpClient(config) stores the configuration it is given (client.ts 34)
NoKeyInit ==
    /\ process = 0
    /\ requestId = 0
    /\ pendingRequests = EmptyMap
    /\ buffer = <<>>
    /\ initialized = FALSE
    /\ initPromise = 0
    /\ requests = <<>>
    /\ attempts = <<>>
    /\ procs = <<>>
    /\ calls = [c \in 1..MaxCalls |-> IdleCall]
    /\ faults = 0
    /\ config = [apiKey |-> FALSE]
    /\ front = NoFront
    /\ fmt = NoFmt
    /\ last = "init"

NoKeySpec == NoKeyInit /\ [][Next]_vars

\* ---- a connected session whose server answers with any kind of response ----
Bodies == {0, 1, 2}

ToolNext ==
    \/ Next
    \/ \E p \in Procs, id \in 1..MaxReq, error \in BOOLEAN, n \in 1..2, body \in Bodies \ {0} :
           RespondWith(p, id, error, n, body)

ToolSpec == ReadyInit /\ [][ToolNext]_vars

\* ---- the framing of the subprocess's output ----
RECURSIVE Streams(_)
Streams(n) ==
    IF n = 0 THEN {<<>>}
    ELSE Streams(n - 1) \cup
         {Append(t, ch) : t \in {x \in Streams(n - 1) : Len(x) = n - 1},
                          ch \in {NL, SP, JUNK, NOTIF, OkTok(2), LetterE}}

\* a connected session that awaits the response to its tools/call request 2, and
\* the bytes that the subprocess has written to its stdout
FrameInit ==
    /\ process = 1
    /\ requestId = 2
    /\ pendingRequests = MapSet(EmptyMap, 2, 2)
    /\ buffer = <<>>
    /\ initialized = TRUE
    /\ initPromise = 1
    /\ requests = <<[Settle(NewRequest(1, "initialize", 1), "resolved", "ok")
                        EXCEPT !.timer = FALSE],
                    NewRequest(2, "tools/call", 1)>>
    /\ attempts = <<[NewAttempt EXCEPT !.pc = "ok", !.timeout = FALSE,
                                       !.interval = FALSE, !.req = 1]>>
    /\ \E stream \in Streams(MaxStream) \ {<<>>} :
           procs = <<[NewProc(TRUE, TRUE, TRUE) EXCEPT
                         !.stdin = <<[method |-> "initialize", id |-> 1],
                                     [method |-> "notifications/initialized", id |-> 0],
                                     [method |-> "tools/call", id |-> 2]>>,
                         !.answered = {1, 2},
                         !.stdout = Encode(stream)]>>
    /\ calls = [c \in 1..MaxCalls |->
                   IF c = 1 THEN [IdleCall EXCEPT !.pc = "request", !.on = 2] ELSE IdleCall]
    /\ faults = 0
    /\ config = [apiKey |-> TRUE]
    /\ front = NoFront
    /\ fmt = NoFmt
    /\ last = "init"

\* the next n bytes of the output arrive as one chunk (client.ts 58)
Chunk(p, n) ==
    /\ Macrotask
    /\ n \in 1..Len(procs[p].stdout)
    /\ UNCHANGED faults
    /\ Data([World EXCEPT !.procs[p].stdout = SubSeq(@, n + 1, Len(@))],
            SubSeq(procs[p].stdout, 1, n))

FrameNext == \E p \in Procs, n \in 1..(2 * MaxStream) : Chunk(p, n)

FrameSpec == FrameInit /\ [][FrameNext]_vars

\* ---- the output formatter (utils.ts 29-88) ----
\* Buffer.byteLength(text, "utf-8")
RECURSIVE byteLength(_)
byteLength(text) ==
    IF text = <<>> THEN 0
    ELSE (IF Head(text) = LetterE THEN 2
          ELSE IF Head(text) \in {Replacement, Surrogate} THEN 3 ELSE 1)
         + byteLength(Tail(text))

\* text.split("\n")
RECURSIVE split(_)
split(text) ==
    LET i == IndexOfNL(text)
    IN  IF i = 0 THEN <<text>>
        ELSE <<SubSeq(text, 1, i - 1)>> \o split(SubSeq(text, i + 1, Len(text)))

\* lines.join("\n")
RECURSIVE join(_)
join(lines) ==
    IF lines = <<>> THEN <<>>
    ELSE IF Len(lines) = 1 THEN lines[1]
    ELSE lines[1] \o <<NL>> \o join(Tail(lines))

\* seq.slice(-n) of arrays and buffers: the last n elements; slice(-0) is slice(0)
sliceLast(seq, n) ==
    IF n = 0 \/ n >= Len(seq) THEN seq ELSE SubSeq(seq, Len(seq) - n + 1, Len(seq))

\* text.replace(/^[^\n]*\n/, ""): drops the text up to and with its first newline
dropFirstLine(text) ==
    LET i == IndexOfNL(text)
    IN  IF i = 0 THEN text ELSE SubSeq(text, i + 1, Len(text))

Min(a, b) == IF a <= b THEN a ELSE b

\* formatBytes (utils.ts 98-102): the number shown and its unit; for KB and MB the
\* number is in tenths, as (x).toFixed(1) rounds it
KiB == 1024
toFixed1(bytes, unit) == (2 * 10 * bytes + unit) \div (2 * unit)
formatBytes(bytes) ==
    IF bytes < KiB THEN [n |-> bytes, unit |-> "B"]
    ELSE IF bytes < KiB * KiB THEN [n |-> toFixed1(bytes, KiB), unit |-> "KB"]
    ELSE [n |-> toFixed1(bytes, KiB * KiB), unit |-> "MB"]

\* writeTempFile (utils.ts 90-96) at time now (Date.now(), in ms) on the files of
\* the temp directory (path -> bytes): the file is named by the timestamp alone;
\* writeFileSync creates the file or replaces its content with the UTF-8 bytes
writeTempFile(files, content, now) ==
    [filepath |-> now, files |-> MapSet(files, now, Encode(content))]

\* utils.ts 47-48
\* (mutant) a text of exactly maxLines lines is truncated
truncateByLines_atLimit(totalLines, maxLines) == totalLines >= maxLines

truncateByLines(totalLines, maxLines) == totalLines > maxLines

truncateByBytes(totalBytes, maxBytes) == totalBytes > maxBytes

\* utils.ts 57-60: the last maxBytes bytes, decoded, without the text up to the
\* first newline
byteTail(rawText, maxBytes) ==
    dropFirstLine(Decode(sliceLast(Encode(rawText), maxBytes)))

\* utils.ts 64: the last maxLines lines of the original text
lineTail(lines, maxLines) == join(sliceLast(lines, maxLines))

\* formatToolOutput on the raw text (utils.ts 42-87), called at time now with the
\* temp directory holding files. content: the output text before the notice;
\* notice: the numbers and the path that truncationInfo states (none when not
\* truncated); tempFile: details.tempFile (none when undefined); files: the temp
\* directory afterwards
formatToolOutput(rawText, maxBytes, maxLines, files, now) ==
    LET lines == split(rawText)
        totalLines == Len(lines)
        totalBytes == byteLength(rawText)
        byLines == truncateByLines(totalLines, maxLines)
        byBytes == truncateByBytes(totalBytes, maxBytes)
        afterBytes == IF byBytes THEN byteTail(rawText, maxBytes) ELSE rawText
        afterLines == IF byLines THEN lineTail(lines, maxLines) ELSE afterBytes
        written == writeTempFile(files, rawText, now)
    IN  IF byLines \/ byBytes
        THEN [content |-> afterLines, truncated |-> TRUE,
              totalLines |-> totalLines, totalBytes |-> totalBytes,
              notice |-> <<[keptLines |-> Min(totalLines, maxLines),
                            totalLines |-> totalLines,
                            keptBytes |-> formatBytes(Min(totalBytes, maxBytes)),
                            totalBytes |-> formatBytes(totalBytes),
                            path |-> written.filepath]>>,
              tempFile |-> <<written.filepath>>, files |-> written.files]
        ELSE [content |-> rawText, truncated |-> FALSE,
              totalLines |-> totalLines, totalBytes |-> totalBytes,
              notice |-> <<>>, tempFile |-> <<>>, files |-> files]

\* "... [truncated]", the marker of truncateHead (utils.ts 139): its bytes
MarkerBytes == 15

\* truncateHead (utils.ts 113-171). content: the returned content without the
\* marker; marker: the marker is appended to it
truncateHead(text, maxBytes, maxLines) ==
    LET totalBytes == byteLength(text)
        lines == split(text)
        totalLines == Len(lines)
        \* 145-147
        byLines == IF totalLines > maxLines THEN join(sliceLast(lines, maxLines))
                   ELSE text
        \* 152-153
        tail == Decode(sliceLast(Encode(byLines), maxBytes))
        \* 155-158: indexOf is counted from 0; the text after the first newline,
        \* unless there is none or the text begins with it
        newlineIdx == IndexOfNL(tail) - 1
        byBytes == IF byteLength(byLines) > maxBytes
                   THEN (IF newlineIdx > 0
                         THEN SubSeq(tail, newlineIdx + 2, Len(tail)) ELSE tail)
                   ELSE byLines
        result(content, marker, truncated, first) ==
            [content |-> content, marker |-> marker, truncated |-> truncated,
             outputLines |-> Len(split(content)),
             outputBytes |-> byteLength(content) + (IF marker THEN MarkerBytes ELSE 0),
             totalLines |-> totalLines, totalBytes |-> totalBytes,
             firstLineExceedsLimit |-> first]
    IN  IF lines[1] # <<>> /\ byteLength(lines[1]) > maxBytes
        \* 137-140: the first maxBytes UTF-16 units of the first line, and the marker
        THEN result(SubSeq(lines[1], 1, Min(maxBytes, Len(lines[1]))), TRUE, TRUE, TRUE)
        ELSE IF totalLines > maxLines \/ totalBytes > maxBytes
        THEN result(byBytes, FALSE, TRUE, FALSE)
        ELSE result(text, FALSE, FALSE, FALSE)

RECURSIVE Texts(_)
Texts(n) ==
    IF n = 0 THEN {<<>>}
    ELSE Texts(n - 1) \cup
         {Append(t, ch) : t \in {x \in Texts(n - 1) : Len(x) = n - 1},
                          ch \in {NL, LetterA, LetterE, Surrogate}}

\* a raw text (never empty: utils.ts 40) and the budgets of one formatToolOutput
\* call, in an empty temp directory
FmtInit ==
    /\ process = 0
    /\ requestId = 0
    /\ pendingRequests = EmptyMap
    /\ buffer = <<>>
    /\ initialized = FALSE
    /\ initPromise = 0
    /\ requests = <<>>
    /\ attempts = <<>>
    /\ procs = <<>>
    /\ calls = [c \in 1..MaxCalls |-> IdleCall]
    /\ faults = 0
    /\ config = [apiKey |-> TRUE]
    /\ front = NoFront
    /\ \E text \in Texts(MaxLen) \ {<<>>}, maxBytes, maxLines \in 0..MaxBudget :
           fmt = [pc |-> "call", rawText |-> text, maxBytes |-> maxBytes,
                  maxLines |-> maxLines, now |-> 1, files |-> EmptyMap]
    /\ last = "init"

\* the call of formatToolOutput (index.ts 166-169, bin 115-118)
Format ==
    /\ fmt.pc = "call"
    /\ fmt' = [fmt EXCEPT !.pc = "done"] @@
              [out |-> formatToolOutput(fmt.rawText, fmt.maxBytes, fmt.maxLines,
                                        fmt.files, fmt.now)]
    /\ UNCHANGED <<process, requestId, pendingRequests, buffer, initialized, initPromise,
                   requests, attempts, procs, calls, faults, config, front, last>>

\* a call of truncateHead, exported by utils.ts for the same texts and budgets
TruncateHead ==
    /\ fmt.pc = "call"
    /\ fmt' = [fmt EXCEPT !.pc = "head"] @@
              [out |-> truncateHead(fmt.rawText, fmt.maxBytes, fmt.maxLines)]
    /\ UNCHANGED <<process, requestId, pendingRequests, buffer, initialized, initPromise,
                   requests, attempts, procs, calls, faults, config, front, last>>

FmtNext == Format \/ TruncateHead

FmtSpec == FmtInit /\ [][FmtNext]_vars

\* ---- formatToolOutput calls of several sessions on one temp directory ----
\* os.tmpdir() is shared by the sessions of one process and by the processes of one
\* user; fmt.now is Date.now(), fmt.files the directory, fmt.outs the calls made
TmpInit ==
    /\ process = 0
    /\ requestId = 0
    /\ pendingRequests = EmptyMap
    /\ buffer = <<>>
    /\ initialized = FALSE
    /\ initPromise = 0
    /\ requests = <<>>
    /\ attempts = <<>>
    /\ procs = <<>>
    /\ calls = [c \in 1..MaxCalls |-> IdleCall]
    /\ faults = 0
    /\ config = [apiKey |-> TRUE]
    /\ front = NoFront
    /\ fmt = [pc |-> "tmp", now |-> 1, files |-> EmptyMap, outs |-> <<>>]
    /\ last = "init"

TmpUnchanged ==
    UNCHANGED <<process, requestId, pendingRequests, buffer, initialized, initPromise,
                requests, attempts, procs, calls, faults, config, front, last>>

\* one millisecond passes
ClockTick ==
    /\ fmt.pc = "tmp"
    /\ fmt.now < MaxClock
    /\ fmt' = [fmt EXCEPT !.now = @ + 1]
    /\ TmpUnchanged

\* some session formats a tool result (index.ts 166-169, 243-246; bin 115-118,
\* 140-143); the call is synchronous
FormatBy(text, maxBytes, maxLines) ==
    /\ fmt.pc = "tmp"
    /\ Len(fmt.outs) < MaxFormats
    /\ LET out == formatToolOutput(text, maxBytes, maxLines, fmt.files, fmt.now)
       IN  fmt' = [fmt EXCEPT !.files = out.files,
                              !.outs = Append(@, [rawText |-> text, out |-> out])]
    /\ TmpUnchanged

TmpNext ==
    \/ ClockTick
    \/ \E text \in Texts(MaxTmpLen) \ {<<>>}, maxBytes, maxLines \in 0..1 :
           FormatBy(text, maxBytes, maxLines)

TmpSpec == TmpInit /\ [][TmpNext]_vars

\* ---- the configuration resolver (config.ts; getConfig of extensions/index.ts) ----
\* A value is named by the source it was taken from: "flag", "env", "project",
\* "global", "default"; "none" is undefined or null.
Settings == {"apiKey", "apiHost", "timeoutMs"}

\* the settings that getConfig takes from flags or from the loaded configuration
\* (index.ts 69-79); basePath, resourceMode and timeoutMs are not among them
Passed == {"apiKey", "apiHost"}

\* DEFAULT_CONFIG (types.ts 55-60) has no apiKey
Default(s) == IF s = "apiKey" THEN "none" ELSE "default"

NoSettings == [s \in Settings |-> "none"]

\* mergeConfig (config.ts 46-62): overrides ?? environment ?? default
mergeConfig(overrides, env) ==
    [s \in Settings |-> IF overrides[s] # "none" THEN overrides[s]
                        ELSE IF env[s] # "none" THEN env[s]
                        ELSE Default(s)]

\* a config file: state "absent", "broken" (its text is not JSON) or "ok", and the
\* settings that its JSON object defines
Readable(file) == file.state = "ok"

\* loadConfig (config.ts 26-44) without custom path: the first of CONFIG_PATHS that
\* exists and parses is merged; the other file is not read
loadConfig(project, global, env) ==
    IF Readable(project) THEN mergeConfig(project.settings, env)
    ELSE IF Readable(global) THEN mergeConfig(global.settings, env)
    ELSE mergeConfig(NoSettings, env)

\* getConfig (index.ts 57-80)
getConfig(flag, project, global, env) ==
    LET baseConfig == loadConfig(project, global, env)
    IN  mergeConfig([s \in Settings |-> IF s \notin Passed THEN "none"
                                        ELSE IF flag[s] # "none" THEN flag[s]
                                        ELSE baseConfig[s]],
                    env)

Files(tag) ==
    {[state |-> st, settings |-> NoSettings] : st \in {"absent", "broken"}}
    \cup {[state |-> "ok", settings |-> f] : f \in [Settings -> {"none", tag}]}

\* an invocation of a front-end before it has resolved its configuration
CfgInit ==
    /\ process = 0
    /\ requestId = 0
    /\ pendingRequests = EmptyMap
    /\ buffer = <<>>
    /\ initialized = FALSE
    /\ initPromise = 0
    /\ requests = <<>>
    /\ attempts = <<>>
    /\ procs = <<>>
    /\ calls = [c \in 1..MaxCalls |-> IdleCall]
    /\ faults = 0
    /\ config = NoSettings
    /\ \E kind \in {"extension", "cli"}, flag \in [Passed -> {"none", "flag"}],
          env \in [Settings -> {"none", "env"}],
          project \in Files("project"), global \in Files("global") :
           /\ kind = "cli" => flag = [s \in Passed |-> "none"]     \* the CLI has no such flags
           /\ front = [kind |-> kind, pc |-> "config", flag |-> flag, env |-> env,
                       project |-> project, global |-> global]
    /\ fmt = NoFmt
    /\ last = "init"

\* the front-end resolves its configuration: getConfig() in the extension
\* (index.ts 125, 203), mergeConfig({}) in the CLI (bin 88)
ResolveConfig ==
    /\ front.pc = "config"
    /\ config' = IF front.kind = "extension"
                 THEN getConfig(front.flag, front.project, front.global, front.env)
                 ELSE mergeConfig(NoSettings, front.env)
    /\ front' = [front EXCEPT !.pc = "resolved"]
    /\ UNCHANGED <<process, requestId, pendingRequests, buffer, initialized, initPromise,
                   requests, attempts, procs, calls, faults, fmt, last>>

CfgNext == ResolveConfig

CfgSpec == CfgInit /\ [][CfgNext]_vars

\* ---- the front-ends: extension tools (extensions/index.ts) and CLI (bin) ----
\* validateConfig (config.ts 93-100): TRUE when it returns, FALSE when it throws
\* (mutant) the credential is not tested
validateConfig_skip(cfg) == TRUE

validateConfig(cfg) == cfg.apiKey

Tools == {"web_search", "understand_image"}

\* one invocation: a tool's execute() of the extension, or `search` / `understand` of
\* the CLI; aborted: the state of the AbortSignal; hasArg: the CLI got its query / path
FrontInit ==
    /\ process = 0
    /\ requestId = 0
    /\ pendingRequests = EmptyMap
    /\ buffer = <<>>
    /\ initialized = FALSE
    /\ initPromise = 0
    /\ requests = <<>>
    /\ attempts = <<>>
    /\ procs = <<>>
    /\ calls = [c \in 1..MaxCalls |-> IdleCall]
    /\ faults = 0
    /\ config \in [apiKey : BOOLEAN]
    /\ \E kind \in {"extension", "cli"}, tool \in Tools, aborted, hasArg \in BOOLEAN :
           /\ kind = "extension" => hasArg
           /\ kind = "cli" => ~aborted
           /\ front = [NoFront EXCEPT !.kind = kind, !.tool = tool, !.pc = "start",
                                      !.aborted = aborted, !.hasArg = hasArg]
    /\ fmt = NoFmt
    /\ last = "init"

SessionUnchanged ==
    UNCHANGED <<process, requestId, pendingRequests, buffer, initialized, initPromise,
                requests, attempts, procs, calls, faults, config, fmt, last>>

FrontReturn(output, exit) == [front EXCEPT !.pc = "done", !.output = output, !.exit = exit]

\* (mutant) execute() does not look at the signal before it constructs the session
ExtEnter_unchecked ==
    /\ front.kind = "extension" /\ front.pc = "start"
    /\ SessionUnchanged
    /\ front' = IF ~validateConfig(config) THEN FrontReturn("config_error", "none")
                ELSE [front EXCEPT !.pc = "constructed", !.constructed = TRUE]

\* execute() up to `new MiniMaxMcpClient(config)` (index.ts 124-153, 202-231)
ExtEnter ==
    /\ front.kind = "extension" /\ front.pc = "start"
    /\ SessionUnchanged
    /\ front' = IF ~validateConfig(config) THEN FrontReturn("config_error", "none")
                ELSE IF front.aborted THEN FrontReturn("cancelled", "none")
                ELSE [front EXCEPT !.pc = "constructed", !.constructed = TRUE]

\* main() up to the call of the session (bin/pi-minimax-mcp.js 87-107, 125-133);
\* process.exit() ends the process at once, no finally block runs
CliEnter ==
    /\ front.kind = "cli" /\ front.pc = "start"
    /\ SessionUnchanged
    /\ front' = IF ~validateConfig(config) THEN FrontReturn("config_error", "1")
                ELSE IF ~front.hasArg
                THEN [FrontReturn("usage_error", "1") EXCEPT !.constructed = TRUE]
                ELSE [front EXCEPT !.pc = "constructed", !.constructed = TRUE]

\* client.webSearch(...) / client.understandImage(...) up to its first await
\* (index.ts 156, 234; bin 109, 135)
FrontCall(pidOk, stdinOk) ==
    /\ front.pc = "constructed"
    /\ calls[1].pc = "idle"
    /\ StartCallTool(1, TRUE, pidOk, stdinOk)

\* the AbortSignal of the tool call fires
Abort ==
    /\ front.kind = "extension" /\ front.pc # "done" /\ ~front.aborted
    /\ SessionUnchanged
    /\ front' = [front EXCEPT !.aborted = TRUE]

\* execute() after the await: result or catch, then finally (index.ts 162-191, 239-268)
ExtFinish ==
    /\ front.kind = "extension" /\ front.pc = "constructed"
    /\ Outcome(1) # "none"
    /\ Commit(cleanup(World))
    /\ UNCHANGED <<calls, faults>>
    /\ last' = "disconnect"
    /\ front' = [FrontReturn(IF Outcome(1) # "result" THEN "error"
                             ELSE IF front.aborted THEN "cancelled" ELSE "result", "none")
                 EXCEPT !.disconnected = TRUE]

\* main() after the await (bin 115-124, 140-160): on success the finally block
\* disconnects; in the catch block process.exit(1) ends the process
CliFinish ==
    /\ front.kind = "cli" /\ front.pc = "constructed"
    /\ Outcome(1) # "none"
    /\ UNCHANGED <<calls, faults>>
    /\ IF Outcome(1) = "result"
       THEN /\ Commit(cleanup(World))
            /\ last' = "disconnect"
            /\ front' = [FrontReturn("result", "none") EXCEPT !.disconnected = TRUE]
       ELSE /\ Commit(World)
            /\ last' = "other"
            /\ front' = FrontReturn("error", "1")

\* the session's callbacks run while the process of the front-end lives
Alive == front.exit = "none"

FrontNext ==
    \/ ExtEnter
    \/ CliEnter
    \/ \E pidOk, stdinOk \in BOOLEAN : FrontCall(pidOk, stdinOk)
    \/ Abort
    \/ ExtFinish
    \/ CliFinish
    \/ Alive /\ CallResume(1)
    \/ \E a \in Attempts : Alive /\ Tick(a)
    \/ \E a \in Attempts : Alive /\ StartupTimeout(a)
    \/ \E a \in Attempts : Alive /\ AttemptResume(a)
    \/ \E r \in Requests : Alive /\ RequestTimeout(r)
    \/ \E p \in Procs, code \in {"0", "1", "null"} : Alive /\ Exit(p, code)
    \/ \E p \in Procs : Alive /\ ProcError(p)
    \/ \E p \in Procs, id \in 1..MaxReq, error \in BOOLEAN, n \in 1..2 :
           Alive /\ Respond(p, id, error, n)
    \/ \E p \in Procs : Alive /\ Deliver(p)

FrontSpec == FrontInit /\ [][FrontNext]_vars


\* ======================= properties =======================

Range(f) == {f[x] : x \in DOMAIN f}

\* the ids of the messages handleData hands to handleMessage when data arrives
IdsIn(data) == Range(HandledIds(SplitLines(buffer \o Decode(data)).lines))

\* a step of callTool()'s connect(): call c leaves "idle"
Starts(c) == calls[c].pc = "idle" /\ calls'[c].pc = "connect"

\* C1: a connect() made while the session is initialized returns at once, a connect()
\* made while an initPromise is held returns that attempt's promise, and neither
\* spawns a subprocess.
C1_ConnectReusesAttempt ==
    [][\A c \in Calls : Starts(c) =>
          /\ initialized => calls'[c].on = 0 /\ procs' = procs /\ attempts' = attempts
          /\ (~initialized /\ initPromise # 0) =>
                calls'[c].on = initPromise /\ procs' = procs /\ attempts' = attempts]_vars

\* two callers wait for the same unsettled connect attempt of the only subprocess
C1_Witness ==
    /\ calls[1].pc = "connect" /\ calls[2].pc = "connect"
    /\ calls[1].on # 0 /\ calls[2].on = calls[1].on
    /\ ~AttemptSettled(calls[1].on)
    /\ Len(procs) = 1

\* C2: when data arrives, the requests that get resolved are exactly the unsettled
\* requests whose id is the id of a message in that data, in any order of arrival.
Routed(ids) ==
    \A r \in Requests :
        (requests[r].state = "pending" /\ requests'[r].state # "pending")
            <=> (requests[r].state = "pending" /\ requests[r].id \in ids)

C2_ResponseRoutedById ==
    [][/\ \A p \in Procs, id \in 1..MaxReq, error \in BOOLEAN, n \in 1..2 :
              Respond(p, id, error, n) =>
                  Routed(IdsIn(SubSeq(<<IF error THEN ErrTok(id) ELSE OkTok(id), NL>>, 1, n)))
       /\ \A p \in Procs : Deliver(p) => Routed(IdsIn(procs[p].stdout))]_vars

\* two tools/call requests were in flight and the later one was answered first
C2_Witness ==
    \E r1, r2 \in Requests :
        /\ r1 < r2
        /\ requests[r1].method = "tools/call" /\ requests[r2].method = "tools/call"
        /\ requests[r1].state = "pending" /\ requests[r1].timer
        /\ requests[r2].state = "resolved"

\* C3: when the timer of an unsettled request fires, the request is rejected with the
\* timeout error and its record is removed; data that carries only ids of timed-out
\* requests changes nothing but the buffer, and a timed-out request stays timed out.
TimedOutIds == {requests[r].id : r \in {x \in Requests : requests[x].result = "timeout"}}

LateOnly(ids) ==
    (ids # {} /\ ids \subseteq TimedOutIds) =>
        UNCHANGED <<process, requestId, pendingRequests, initialized, initPromise,
                    requests, attempts, calls>>

C3_TimeoutThenLateResponseIgnored ==
    [][/\ \A r \in Requests : (RequestTimeout(r) /\ requests[r].state = "pending") =>
              /\ requests'[r].state = "rejected" /\ requests'[r].result = "timeout"
              /\ requests[r].id \notin DOMAIN pendingRequests'
       /\ \A p \in Procs, id \in 1..MaxReq, error \in BOOLEAN, n \in 1..2 :
              Respond(p, id, error, n) =>
                  LateOnly(IdsIn(SubSeq(<<IF error THEN ErrTok(id) ELSE OkTok(id), NL>>, 1, n)))
       /\ \A p \in Procs : Deliver(p) => LateOnly(IdsIn(procs[p].stdout))
       /\ \A r \in Requests : requests[r].result = "timeout" => requests'[r] = requests[r]]_vars

\* a request timed out and the whole response line for its id has arrived since
C3_Witness ==
    \E r \in Requests, p \in Procs :
        /\ requests[r].result = "timeout"
        /\ requests[r].id \in procs[p].answered
        /\ procs[p].stdout = <<>> /\ buffer = <<>>

\* C4 (as claimed): when the owned subprocess exits while two requests are pending,
\* both are rejected by the exit, the map becomes empty and the session is not ready.
C4_ExitRejectsPending ==
    [][\A p \in Procs, code \in {"0", "1", "null"} :
          (Exit(p, code) /\ p = process /\ Cardinality(DOMAIN pendingRequests) >= 2) =>
              /\ \A id \in DOMAIN pendingRequests :
                     requests'[pendingRequests[id]].state = "rejected"
              /\ pendingRequests' = EmptyMap
              /\ ~initialized' /\ process' = 0]_vars

\* C5: an "error" event rejects every pending request with that error, empties the
\* map, releases the handle and resets initialized and initPromise.
C5_ErrorBroadcast ==
    [][\A p \in Procs : ProcError(p) =>
          /\ \A id \in DOMAIN pendingRequests :
                 /\ requests'[pendingRequests[id]].state = "rejected"
                 /\ requests'[pendingRequests[id]].result = "process_error"
          /\ pendingRequests' = EmptyMap
          /\ process' = 0 /\ ~initialized' /\ initPromise' = 0]_vars

\* an "error" event has rejected a request and the session is unconnected
C5_Witness ==
    /\ \E p \in Procs : procs[p].errored
    /\ \E r \in Requests : requests[r].result = "process_error"
    /\ pendingRequests = EmptyMap /\ process = 0 /\ ~initialized /\ initPromise = 0

\* the subprocess a suspended call depends on: the one spawned by the connect attempt
\* it awaits, or the one its tools/call request was written to
ProcOf(c) ==
    IF calls[c].pc = "request" THEN requests[calls[c].on].proc
    ELSE IF calls[c].pc = "connect" THEN calls[c].on
    ELSE 0

Suspended(c) == calls[c].pc \in {"connect", "request"} /\ Outcome(c) = "none"

\* C6 (as claimed): a call that is still suspended when its subprocess has exited with
\* code 1 ends with a process-failure error, not with a startup or request timeout.
C6_ExitFailsCall ==
    [][\A c \in Calls :
          (/\ Suspended(c)
           /\ ProcOf(c) # 0
           /\ procs[ProcOf(c)].code = "1"
           /\ OutcomeIn(calls', requests', c) # "none")
          => OutcomeIn(calls', requests', c) \in {"process_error", "not_connected"}]_vars

CallEnded(c) == IF calls[c].pc = "idle" THEN FALSE ELSE Outcome(c) # "none"

\* C7: every call, wherever it is suspended (in connect() waiting for the startup wait
\* or the handshake of the attempt it awaits, or waiting for the response to its
\* request), eventually completes with a result or an error.
C7_EverySuspensionEnds ==
    \A c \in Calls : (calls[c].pc # "idle") ~> CallEnded(c)

\* a call whose subprocess was killed or has exited ended by its request timer
C7_Witness ==
    \E c \in Calls :
        /\ calls[c].pc = "request"
        /\ Outcome(c) = "timeout"
        /\ procs[requests[calls[c].on].proc].state \in {"killed", "exited"}

\* each request has its own id, an unsettled request has exactly its own record and a
\* record belongs to an unsettled request
OneRecordPerRequest ==
    /\ \A r1, r2 \in Requests : r1 # r2 => requests[r1].id # requests[r2].id
    /\ \A r \in Requests : requests[r].state = "pending" =>
           /\ requests[r].id \in DOMAIN pendingRequests
           /\ pendingRequests[requests[r].id] = r
    /\ \A id \in DOMAIN pendingRequests : requests[pendingRequests[id]].state = "pending"

RequestEnded(r) == IF r \in Requests THEN requests[r].state # "pending" ELSE FALSE

SettledOnce ==
    \A r \in Requests : requests[r].state # "pending" =>
        requests'[r].state = requests[r].state /\ requests'[r].result = requests[r].result

\* C8 (as claimed): one record per request id, and exactly one completion per request,
\* which is a response, the timeout or the failure broadcast.
C8_OneOfThreeCompletions ==
    /\ [](OneRecordPerRequest /\
          \A r \in Requests :
              requests[r].result \in {"none", "ok", "rpc_error", "timeout", "process_error"})
    /\ [][SettledOnce]_vars
    /\ <>[](\A r \in Requests : RequestEnded(r))

\* C8 (amended): one record per request id, and exactly one completion per request,
\* which is a response, the timeout, the failure broadcast or the failure to write the
\* request.
C8_OneCompletion ==
    /\ [](OneRecordPerRequest /\
          \A r \in Requests :
              requests[r].result \in
                  {"none", "ok", "rpc_error", "timeout", "process_error", "write_error"})
    /\ [][SettledOnce]_vars
    /\ <>[](\A r \in Requests : RequestEnded(r))

\* one request ended by the failure to write it, and another ended by its timeout
\* before the response for its id arrived and was dropped
C8_Witness ==
    /\ \E r \in Requests : requests[r].result = "write_error"
    /\ \E r \in Requests, p \in Procs :
           /\ requests[r].method = "tools/call"
           /\ requests[r].result = "timeout"
           /\ requests[r].id \in procs[p].answered

\* C9: disconnect() does not throw, and a disconnect() that follows a disconnect()
\* changes nothing.
C9_DisconnectIdempotent ==
    [][Disconnect =>
          /\ last' # "threw"
          /\ last \in {"disconnect", "disconnect2"} =>
                 UNCHANGED <<process, requestId, pendingRequests, buffer, initialized,
                             initPromise, requests, attempts, procs, calls>>]_vars

\* disconnect() was called twice in a row on a session that had connected
C9_Witness == last = "disconnect2" /\ Len(procs) >= 1

\* C10 (as claimed): after disconnect() the handle is released, the subprocess killed,
\* the buffer empty, no request pending and the map empty.
C10_DisconnectLeavesNothing ==
    last \in {"disconnect", "disconnect2"} =>
        /\ process = 0
        /\ \A p \in Procs : procs[p].state # "running"
        /\ buffer = <<>>
        /\ pendingRequests = EmptyMap
        /\ \A r \in Requests : requests[r].state # "pending"

\* the session is unconnected: nothing is held and the next connect() starts an attempt
Unconnected == process = 0 /\ ~initialized /\ initPromise = 0

Teardown ==
    \/ Disconnect
    \/ \E p \in Procs : ProcError(p)
    \/ \E p \in Procs, code \in {"0", "1", "null"} : Exit(p, code)

\* C11: an "error" event, an exit and disconnect() leave the session unconnected, and
\* a callTool() on an unconnected session spawns a fresh subprocess, owns it and awaits
\* a new connect attempt.
C11_ReusableAfterTeardown ==
    [][/\ Teardown => Unconnected'
       /\ \A c \in Calls : (Starts(c) /\ Unconnected) =>
              /\ Len(procs') = Len(procs) + 1
              /\ process' = Len(procs')
              /\ procs'[process'].stdin = <<>>
              /\ Len(attempts') = Len(attempts) + 1
              /\ initPromise' = Len(attempts')
              /\ calls'[c].on = initPromise'
              /\ attempts'[initPromise'].pc = "startup"]_vars

\* the methods written to a subprocess, in order
Methods(p) == [i \in 1..Len(procs[p].stdin) |-> procs[p].stdin[i].method]

\* after the first subprocess was torn down, a call has spawned a second one, the
\* handshake was done with it, the session is ready and the call got its result
C11_Witness ==
    /\ Len(procs) = 2
    /\ procs[1].state \in {"killed", "exited"}
    /\ Methods(2) = <<"initialize", "notifications/initialized", "tools/call">>
    /\ initialized /\ process = 2
    /\ \E c \in Calls : calls[c].pc = "request" /\ requests[calls[c].on].proc = 2
                         /\ Outcome(c) = "result"

\* attempt a fails in this step by the startup timeout or by an initialize error response
FailsNow(a) ==
    /\ attempts[a].pc # "failed"
    /\ attempts'[a].pc = "failed"
    /\ attempts'[a].err \in {"startup_timeout", "initialize_failed"}

\* C12 (as claimed): when the attempt held in initPromise fails by the startup timeout
\* or by an initialize error response, initPromise and the handle are released, and a
\* later callTool() never awaits an attempt that has already failed.
C12_FailedAttemptResets ==
    [][/\ \A a \in Attempts : (FailsNow(a) /\ initPromise = a) =>
              (initPromise' = 0 /\ process' = 0)
       /\ \A c \in Calls : (Starts(c) /\ calls'[c].on # 0) =>
              attempts'[calls'[c].on].pc # "failed"]_vars

\* a tools/call request is written to subprocess p in this step
WritesToolsCall(p) ==
    /\ Len(procs'[p].stdin) = Len(procs[p].stdin) + 1
    /\ procs'[p].stdin[Len(procs'[p].stdin)].method = "tools/call"

\* C13 (as claimed): a tools/call request is written only while the session is Ready
\* (initialized, with the subprocess it is written to owned).
C13_ToolsCallOnlyWhenReady ==
    [][\A p \in Procs : WritesToolsCall(p) => (initialized /\ process = p)]_vars

\* C14: a subprocess that has not been killed and has not exited is the one the
\* session owns, a subprocess is spawned only when no handle is held, and a handle
\* is released only by a step that leaves its subprocess killed or exited.
C14_AtMostOneOwned ==
    /\ [](\A p \in Procs : procs[p].state = "running" => process = p)
    /\ [][/\ Len(procs') > Len(procs) => (process = 0 /\ Len(procs') = Len(procs) + 1)
          /\ (process # 0 /\ process' # process) =>
                 procs'[process].state \in {"killed", "exited", "nopid"}]_vars

\* a second subprocess is running and owned while the first, killed, has not exited
C14_Witness ==
    /\ Len(procs) = 2
    /\ procs[1].state = "killed"
    /\ procs[2].state = "running"
    /\ process = 2

\* C15: the ids of the requests are strictly increasing in issue order (so none
\* repeats), and the counter never goes back.
C15_IdsStrictlyIncreasing ==
    /\ [](\A r1, r2 \in Requests : r1 < r2 => requests[r1].id < requests[r2].id)
    /\ [](\A r \in Requests : requests[r].id <= requestId)
    /\ [][requestId' >= requestId]_vars

\* a request timed out, the session was torn down, and a request to the next
\* subprocess carries a larger id
C15_Witness ==
    \E r1, r2 \in Requests :
        /\ r1 < r2
        /\ requests[r1].result = "timeout"
        /\ requests[r1].proc = 1 /\ requests[r2].proc = 2
        /\ requests[r2].id > requests[r1].id

\* the step completes at most the requests with these ids and leaves every other
\* request, every other record, the handle, initialized and initPromise as they were
OnlyThese(ids) ==
    /\ process' = process /\ initialized' = initialized /\ initPromise' = initPromise
    /\ \A r \in Requests : requests[r].id \notin ids => requests'[r] = requests[r]
    /\ \A k \in DOMAIN pendingRequests \ ids :
           k \in DOMAIN pendingRequests' /\ pendingRequests'[k] = pendingRequests[k]
    /\ procs' = procs

\* C16: the timeout of a tools/call request, and data that carries the error response
\* to one, reject only that request: the other requests and records, the handle and
\* the initialized flag are unchanged.
C16_FailureRejectsOnlyThatCall ==
    [][/\ \A r \in Requests :
              (RequestTimeout(r) /\ requests[r].method = "tools/call") =>
                  OnlyThese({requests[r].id})
       /\ \A p \in Procs, id \in 1..MaxReq, n \in 1..2 :
              (/\ Respond(p, id, TRUE, n)
               /\ \E r \in Requests : requests[r].id = id /\ requests[r].method = "tools/call")
              => (process' = process /\ initialized' = initialized /\
                  initPromise' = initPromise /\
                  \A r \in Requests : requests[r].id # id => requests'[r] = requests[r])
       /\ \A p \in Procs : Deliver(p) =>
              (process' = process /\ initialized' = initialized /\
               initPromise' = initPromise /\
               \A r \in Requests :
                   requests[r].id \notin IdsIn(procs[p].stdout) => requests'[r] = requests[r])]_vars

\* one call ended with a timeout or a tool error, and a later call got its result from
\* the same subprocess, still owned by the Ready session
C16_Witness ==
    \E c1, c2 \in Calls :
        /\ calls[c1].pc = "request" /\ calls[c2].pc = "request"
        /\ Outcome(c1) \in {"timeout", "tool_error"}
        /\ Outcome(c2) = "result"
        /\ requests[calls[c1].on].id < requests[calls[c2].on].id
        /\ requests[calls[c1].on].proc = requests[calls[c2].on].proc
        /\ process = requests[calls[c2].on].proc /\ initialized

\* C17 (as claimed): on a session whose configuration has no credential no subprocess
\* is ever spawned, and every call ends with the configuration error.
C17_NoCredentialNoSpawn ==
    ~config.apiKey =>
        /\ Len(procs) = 0
        /\ \A c \in Calls : calls[c].pc # "idle" => Outcome(c) = "config_error"

\* C18: when the resolved configuration has no apiKey, no session is constructed, no
\* subprocess is spawned, and the invocation ends with the configuration error.
C18_FrontEndsValidateFirst ==
    ~config.apiKey =>
        /\ ~front.constructed
        /\ calls[1].pc = "idle"
        /\ Len(procs) = 0
        /\ front.pc \in {"start", "done"}
        /\ front.pc = "done" => front.output = "config_error"

\* an invocation without apiKey has ended with the configuration error
C18_Witness ==
    /\ ~config.apiKey
    /\ front.pc = "done"
    /\ front.output = "config_error"

\* C19 (as claimed): an invocation that has constructed a session has called
\* disconnect() on it when it returns or the process exits.
C19_FrontEndsDisconnect ==
    (front.pc = "done" /\ front.constructed) => front.disconnected

\* C20 (as claimed): the content before the notice has at most maxLines lines and at
\* most maxBytes bytes.
C20_ContentWithinBudgets ==
    fmt.pc = "done" =>
        /\ Len(split(fmt.out.content)) <= fmt.maxLines
        /\ byteLength(fmt.out.content) <= fmt.maxBytes

\* the text given to the formatter is within both budgets
WithinBudget ==
    /\ Len(split(fmt.rawText)) <= fmt.maxLines
    /\ byteLength(fmt.rawText) <= fmt.maxBytes

\* C21: a text of at most maxLines lines and at most maxBytes bytes is returned
\* unchanged, with truncated = false, without notice and without temp file (none
\* reported, none written), and formatting the returned text again gives the same
\* result.
C21_WithinBudgetUnchanged ==
    (fmt.pc = "done" /\ WithinBudget) =>
        /\ fmt.out.content = fmt.rawText
        /\ ~fmt.out.truncated
        /\ fmt.out.notice = <<>>
        /\ fmt.out.tempFile = <<>>
        /\ fmt.out.files = fmt.files
        /\ formatToolOutput(fmt.out.content, fmt.maxBytes, fmt.maxLines,
                            fmt.out.files, fmt.now) = fmt.out

\* a text of several lines that meets both budgets exactly has been formatted
C21_Witness ==
    /\ fmt.pc = "done"
    /\ Len(split(fmt.rawText)) = fmt.maxLines
    /\ byteLength(fmt.rawText) = fmt.maxBytes
    /\ fmt.maxLines > 1
    /\ ~fmt.out.truncated

\* the text read back from the temp file that the result reports
ReadBack == Decode(fmt.out.files[fmt.out.tempFile[1]])

\* C22 (as claimed): a temp file path is reported, and a file written, exactly when
\* the result is truncated, and the text read back from that file is the original
\* text.
C22_TempFileRoundTrip ==
    fmt.pc = "done" =>
        /\ (fmt.out.tempFile # <<>>) <=> fmt.out.truncated
        /\ (fmt.out.files # fmt.files) <=> fmt.out.truncated
        /\ fmt.out.truncated =>
               /\ fmt.out.tempFile[1] \in DOMAIN fmt.out.files
               /\ ReadBack = fmt.rawText

\* C23 (as claimed): any two truncating format operations have written to distinct
\* temp files, and the file of each still holds the full text that its own operation
\* wrote.
C23_DistinctTempFiles ==
    fmt.pc = "tmp" =>
        \A i, j \in 1..Len(fmt.outs) :
            (i < j /\ fmt.outs[i].out.truncated /\ fmt.outs[j].out.truncated) =>
                /\ fmt.outs[i].out.tempFile # fmt.outs[j].out.tempFile
                /\ fmt.files[fmt.outs[i].out.tempFile[1]] = Encode(fmt.outs[i].rawText)
                /\ fmt.files[fmt.outs[j].out.tempFile[1]] = Encode(fmt.outs[j].rawText)

\* the last n lines of the text, in their order
RECURSIVE LastLines(_, _)
LastLines(text, n) ==
    LET lines == split(text)
    IN  IF Len(lines) <= n THEN text
        ELSE IF n = 0 THEN <<>>
        ELSE LastLines(dropFirstLine(text), n)

\* C24 (as claimed): when the text has more than maxLines lines and at most maxBytes
\* bytes, the content before the notice is exactly the last maxLines lines of the
\* original, the result is truncated, and the temp file holds the whole text.
C24_LastLinesKept ==
    (/\ fmt.pc = "done"
     /\ Len(split(fmt.rawText)) > fmt.maxLines
     /\ byteLength(fmt.rawText) <= fmt.maxBytes) =>
        /\ fmt.out.content = LastLines(fmt.rawText, fmt.maxLines)
        /\ Len(split(fmt.out.content)) = fmt.maxLines
        /\ fmt.out.truncated
        /\ fmt.out.tempFile # <<>>
        /\ fmt.out.files[fmt.out.tempFile[1]] = Encode(fmt.rawText)

\* some line of the text given to the formatter has more than maxBytes bytes
LineExceeds ==
    \E i \in 1..Len(split(fmt.rawText)) : byteLength(split(fmt.rawText)[i]) > fmt.maxBytes

\* the result flags the case; the details of formatToolOutput have no such field
Flagged == IF fmt.pc = "head" THEN fmt.out.firstLineExceedsLimit ELSE FALSE

\* C25 (as claimed): when a line of the text alone exceeds maxBytes, the result of
\* either formatting operation is truncated, flags the case, and its content without
\* the marker has at most maxBytes bytes.
C25_OversizedLineFlagged ==
    (fmt.pc \in {"done", "head"} /\ LineExceeds) =>
        /\ fmt.out.truncated
        /\ Flagged
        /\ byteLength(fmt.out.content) <= fmt.maxBytes

\* what callTool has to give for a response: the upstream message in a tool-call
\* error, or the result field, or an empty content list when there is no result
Expected(error, body) ==
    IF error
    THEN [threw |-> TRUE,
          value |-> <<"Tool call failed: ">> \o
                    <<CASE body = 0 -> "message A" [] body = 1 -> "message B"
                        [] body = 2 -> "message C">>]
    ELSE [threw |-> FALSE,
          value |-> <<CASE body = 0 -> "object" [] body = 1 -> "{ content: [] }"
                        [] body = 2 -> "false">>]

\* the pending tools/call request id gets what the response (error, body) asks for,
\* and so does the call that awaits it
Answered(id, error, body) ==
    (id \in DOMAIN pendingRequests /\ requests[pendingRequests[id]].method = "tools/call") =>
        LET r == pendingRequests[id]
        IN  /\ requests'[r].state = "resolved"
            /\ callToolReturn(requests'[r]) = Expected(error, body)
            /\ \A c \in Calls :
                   (calls[c].pc = "request" /\ calls[c].on = r) =>
                       Outcome(c)' = IF error THEN "tool_error" ELSE "result"

\* C26: when the response to a pending tools/call request is handled (its line comes
\* in one chunk on an empty buffer, or the buffer holds the message and the newline
\* comes), callTool returns the response's result
\* field unchanged when there is no error (an empty content list when there is no
\* result) and throws the tool-call error with the upstream message when there is
\* one; what a settled call gives never changes afterwards.
C26_CallToolResultOrError ==
    [][/\ \A p \in Procs, id \in 1..MaxReq, error \in BOOLEAN, body \in Bodies :
             /\ (RespondWith(p, id, error, 2, body) /\ buffer = <<>>)
                    => Answered(id, error, body)
             /\ (/\ Deliver(p)
                 /\ buffer = <<WithBody(IF error THEN ErrTok(id) ELSE OkTok(id), body)>>
                 /\ procs[p].stdout = <<NL>>)
                    => Answered(id, error, body)
       /\ \A r \in Requests :
             (requests[r].method = "tools/call" /\ requests[r].state # "pending") =>
                 /\ requests'[r].state = requests[r].state
                 /\ requests'[r].result = requests[r].result
                 /\ requests'[r].body = requests[r].body]_vars

\* one tools/call request was answered without result, so that callTool returns the
\* empty content list, and the request of a waiting call was answered with an error
C26_Witness ==
    \E r1, r2 \in Requests :
        /\ requests[r1].method = "tools/call" /\ requests[r2].method = "tools/call"
        /\ requests[r1].state = "resolved" /\ requests[r2].state = "resolved"
        /\ callToolReturn(requests[r1]) = [threw |-> FALSE, value |-> <<"{ content: [] }">>]
        /\ callToolReturn(requests[r2]).threw
        /\ \E c \in Calls : calls[c].pc = "request" /\ calls[c].on = r2

\* the value of setting s in the highest-priority source that defines it: flag,
\* environment variable, project config file, global config file, default
Defines(file, s) == Readable(file) /\ file.settings[s] # "none"

HighestPriority(s) ==
    IF s \in Passed /\ front.flag[s] # "none" THEN front.flag[s]
    ELSE IF front.env[s] # "none" THEN front.env[s]
    ELSE IF Defines(front.project, s) THEN front.project.settings[s]
    ELSE IF Defines(front.global, s) THEN front.global.settings[s]
    ELSE Default(s)

\* C27 (as claimed): every setting of the resolved configuration has the value of the
\* highest-priority source that defines it: flags, then environment variables, then
\* the project config file, then the global one, then the defaults.
C27_HighestPrioritySourceWins ==
    (front.pc = "resolved") =>
        \A s \in Settings : config[s] = HighestPriority(s)

\* C28 (as claimed): when a part of the subprocess's output arrives as a chunk, the
\* messages handled for this chunk followed by those handled when the rest arrives
\* at once are the messages handled when the whole output arrives at once, and the
\* same incomplete line stays in the buffer; so every splitting of the output gives
\* the messages of the unsplit output.
C28_ChunkingInvariant ==
    [][\A p \in Procs, n \in 1..(2 * MaxStream) :
           Chunk(p, n) =>
               LET whole == SplitLines(buffer \o Decode(procs[p].stdout))
                   first == SplitLines(buffer \o Decode(SubSeq(procs[p].stdout, 1, n)))
                   rest  == SplitLines(buffer' \o Decode(procs'[p].stdout))
               IN  /\ HandledMessages(first.lines) \o HandledMessages(rest.lines)
                          = HandledMessages(whole.lines)
                   /\ rest.buffer = whole.buffer]_vars

\* the bytes of content are a tail of the bytes of text that begins at the start of
\* the text or right after a newline
TailAtLineBoundary(content, text) ==
    LET all == Encode(text)
        kept == Encode(content)
        k == Len(all) - Len(kept)
    IN  /\ k >= 0
        /\ kept = SubSeq(all, k + 1, Len(all))
        /\ k = 0 \/ all[k] = NL

\* C29 (as claimed): whenever the text exceeds maxBytes and byte-truncation is applied
\* (by formatToolOutput, or by truncateHead outside its first-line case), the content
\* is a tail of the original text that begins at a line boundary.
C29_ByteTailAtLineBoundary ==
    (/\ fmt.pc \in {"done", "head"}
     /\ byteLength(fmt.rawText) > fmt.maxBytes
     /\ ~Flagged) =>
        TailAtLineBoundary(fmt.out.content, fmt.rawText)

\* C30 (as claimed): the notice of a truncated result states the line count and the
\* byte count of the content before the notice, the totals of the original text, and
\* the path of the temp file.
C30_NoticeStatesKeptCounts ==
    (fmt.pc = "done" /\ fmt.out.truncated) =>
        /\ fmt.out.notice # <<>>
        /\ fmt.out.notice[1].keptLines = Len(split(fmt.out.content))
        /\ fmt.out.notice[1].keptBytes = formatBytes(byteLength(fmt.out.content))
        /\ fmt.out.notice[1].totalLines = Len(split(fmt.rawText))
        /\ fmt.out.notice[1].totalBytes = formatBytes(byteLength(fmt.rawText))
        /\ fmt.out.notice[1].path = fmt.out.tempFile[1]

\* ---- C31 ----
\* the step of initialize() that sends "notifications/initialized": the initialize
\* request was answered without error and the session has a stdin to write to
NotificationSent(a) ==
    /\ AttemptResume(a)
    /\ requests[attempts[a].req].state = "resolved"
    /\ requests[attempts[a].req].result = "ok"
    /\ HasStdin(World)

Notification == [method |-> "notifications/initialized", id |-> 0]

\* C31: sending a notification appends exactly one message without an id to the stdin
\* of the owned subprocess, leaves the pending-request map and the request-id counter
\* as they were, and creates no completion (promise) that could ever be settled for it
C31_NotificationFrame ==
    [][\A a \in Attempts :
          NotificationSent(a) =>
              /\ process' = process
              /\ procs'[process].stdin = Append(procs[process].stdin, Notification)
              /\ \A p \in Procs \ {process} : procs'[p].stdin = procs[p].stdin
              /\ pendingRequests' = pendingRequests
              /\ requestId' = requestId
              /\ requests' = requests
              /\ \A r \in Requests : requests[r].method # Notification.method]_vars

\* a notification has just been written while another request was still recorded
\* as pending
C31_Witness ==
    /\ process # 0
    /\ initialized
    /\ Len(procs[process].stdin) >= 2
    /\ procs[process].stdin[Len(procs[process].stdin)] = Notification
    /\ pendingRequests # EmptyMap

\* ---- C32 ----
\* what the claim says of the extension tools, for the invocations selected by Applies:
\* (1) entered with the signal already set, execute() returns 'Cancelled' and no
\* session is constructed, nothing is spawned and nothing is sent; (2) the signal
\* firing later changes nothing of the session or of its requests; (3) when the call
\* has returned its result and the signal is set, execute() returns 'Cancelled' and
\* has disconnected the session; a 'Cancelled' result arises in no other way
AbortHonoredAtBoundaries(Applies) ==
    /\ (ExtEnter /\ front.aborted /\ Applies) =>
           /\ front'.pc = "done"
           /\ front'.output = "cancelled"
           /\ ~front'.constructed
           /\ procs' = <<>> /\ requests' = <<>> /\ calls'[1].pc = "idle"
    /\ Abort =>
           /\ front'.pc = front.pc
           /\ front'.output = front.output
           /\ UNCHANGED <<process, requestId, pendingRequests, buffer, initialized,
                          initPromise, requests, attempts, procs, calls>>
    /\ (ExtFinish /\ front.aborted /\ Outcome(1) = "result") =>
           /\ front'.output = "cancelled"
           /\ front'.disconnected
           /\ process' = 0 /\ ~initialized' /\ initPromise' = 0
    /\ (front'.kind = "extension" /\ front'.output = "cancelled") =>
           /\ front'.aborted
           /\ front'.constructed => (front'.disconnected /\ Outcome(1)' = "result")

\* C32 (as stated): in the extension tools a signal that is set before the call
\* always yields 'Cancelled' without a session; a signal raised in flight does not
\* interrupt the request and yields 'Cancelled', with the session disconnected, once
\* the call has returned
C32_AbortAsStated == [][AbortHonoredAtBoundaries(TRUE)]_vars

\* C32 (amended): the same for an invocation whose configuration passes
\* validateConfig; without an apiKey the configuration error is returned first,
\* whatever the signal says
C32_AbortHonoredAtBoundaries == [][AbortHonoredAtBoundaries(validateConfig(config))]_vars

\* the signal fired while the request was in flight, the call returned its result,
\* and execute() answered 'Cancelled' after disconnecting
C32_Witness ==
    /\ front.kind = "extension"
    /\ front.output = "cancelled"
    /\ front.constructed /\ front.disconnected
    /\ Outcome(1) = "result"
    /\ \E r \in Requests : requests[r].method = "tools/call" /\ requests[r].state = "resolved"

\* ---- C33 ----
\* p is a subprocess the session has released while it owns another one
Released(p) == process # 0 /\ p # process

\* C33 (as claimed): the exit or error event of a released subprocess, arriving while
\* the session owns a newer one, does not kill the newer subprocess, does not drop its
\* handle and does not reset initialized or initPromise of the new connection
C33_StaleEventSparesNewConnection ==
    [][\A p \in Procs :
          (Released(p) /\ (ProcError(p) \/ \E code \in {"0", "1", "null"} : Exit(p, code))) =>
              /\ process' = process
              /\ procs'[process].state = procs[process].state
              /\ initialized' = initialized
              /\ initPromise' = initPromise]_vars

\* ---- C34 ----
\* the initialize requests written to the stdin of subprocess p
InitializeRequests(p) ==
    {i \in 1..Len(procs[p].stdin) : procs[p].stdin[i].method = "initialize"}

\* C34 (as claimed): every spawned subprocess is sent at most one initialize request;
\* an attempt abandoned by disconnect() or a teardown never goes on to handshake with
\* the subprocess of a later attempt
C34_AtMostOneInitialize ==
    \A p \in Procs : Cardinality(InitializeRequests(p)) <= 1

\* ---- C35 ----
\* subprocess p was sent an initialize request that it answered without error, and a
\* later line of its stdin is the initialized notification
Handshaken(p) ==
    \E i, j \in 1..Len(procs[p].stdin) :
        /\ i < j
        /\ procs[p].stdin[i].method = "initialize"
        /\ procs[p].stdin[i].id \in procs[p].answered
        /\ \E r \in Requests : /\ requests[r].id = procs[p].stdin[i].id
                                /\ requests[r].state = "resolved"
                                /\ requests[r].result = "ok"
        /\ procs[p].stdin[j] = Notification

\* C35 (as claimed): whenever initialized is true the session holds a subprocess
\* handle, and that subprocess has answered an initialize request without error and
\* has afterwards been sent the initialized notification
C35_InitializedMeansHandshaken ==
    initialized => (process # 0 /\ Handshaken(process))

\* ---- C36 ----
\* request r is pending: its promise is unsettled and its record is in the map
Pending(r) ==
    /\ requests[r].state = "pending"
    /\ requests[r].id \in DOMAIN pendingRequests
    /\ pendingRequests[requests[r].id] = r

\* C36 (as claimed): a request that has settled, or whose pending record has been
\* removed, has no armed timeout timer; a connect attempt whose startup wait has ended
\* (it went on to the handshake, or failed) has neither its readiness poll nor its
\* startup timeout armed
C36_NoTimerOutlivesItsOwner ==
    /\ \A r \in Requests : requests[r].timer => Pending(r)
    /\ \A a \in Attempts :
           (attempts[a].interval \/ attempts[a].timeout) => attempts[a].pc = "startup"

====
